---- MODULE Spec2Model ----
(***************************************************************************)
(* A model of main.py: a FastAPI application over a SQLite store with two  *)
(* tables (users, posts), a cookie session that carries the bare username, *)
(* and the handlers register_user, login, logout, dashboard, create_post,  *)
(* user_profile and admin_dashboard, plus the start-up hook                *)
(* create_superuser.                                                       *)
(*                                                                         *)
(* A worker is one server process.  Inside a process the body of a handler *)
(* runs on the event loop up to its next await, so a worker has at most    *)
(* one register_user call in flight; get_current_user is a plain function, *)
(* which the framework runs in a thread before it calls the handler, so    *)
(* the identity lookup of a request is a step of its own and other         *)
(* requests are served between it and the handler's body.  Several workers *)
(* share the store, and there every query and every INSERT+COMMIT is a     *)
(* step of its own.                                                        *)
(***************************************************************************)
EXTENDS Integers, Sequences, FiniteSets, TLC

VARIABLES users, posts, files, boot, reg, pending, uploads, jar, hist, nreg, resp

vars == <<users, posts, files, boot, reg, pending, uploads, jar, hist, nreg, resp>>

----------------------------------------------------------------------------
(* Bounds of the model.                                                    *)

MaxPosts == 2       \* rows the posts table may hold
MaxTime == 2        \* readings the wall clock may give
MaxFiles == 1       \* image files create_post may open
MaxInFlight == 1    \* requests between their identity lookup and their handler

(* The values requests are drawn from.                                     *)

Workers == {"w1", "w2"}
Browsers == {"c1"}
Curl == "curl"
Agents == Browsers \cup {Curl}

Usernames == {"admin", "alice", "bob"}
Emails == {"admin@example.com", "a@x.com", "b@x.com"}
Passwords == {"admin", "pw1"}
Salts == {"s1"}
Times == 1..MaxTime

NoCookie == "<none>"
Cookies == Usernames \cup {NoCookie}
None == "<None>"
NoReq == [pc |-> "idle"]

----------------------------------------------------------------------------
(* Credential service: passlib's CryptContext(bcrypt).  hash draws a salt  *)
(* and keeps it in the digest; verify recomputes the digest of the offered *)
(* password under the stored salt and compares.                            *)

pwd_hash(password, salt) == <<"bcrypt", salt, password>>

pwd_verify(password, hashed) == pwd_hash(password, hashed[2]) = hashed

\* a verify_password that accepts whatever is offered
verify_any(user, password) == TRUE

verify_password(user, password) == pwd_verify(password, user.hashed_password)

----------------------------------------------------------------------------
(* The store.  A table is the sequence of its rows in insertion order; the *)
(* integer primary key of a row is its position.                           *)

User(id, username, email, hashed_password, is_admin) ==
    [id |-> id, username |-> username, email |-> email,
     hashed_password |-> hashed_password, is_admin |-> is_admin]

Post(id, content, image_path, created_at, user_id) ==
    [id |-> id, content |-> content, image_path |-> image_path,
     created_at |-> created_at, user_id |-> user_id]

Rows(table) == {table[i] : i \in 1..Len(table)}

\* db.query(User).count()
user_count(us) == Len(us)

\* db.query(User).filter(User.username == username).first()
by_username(us, username) == {u \in Rows(us) : u.username = username}

\* a duplicate check that looks at the username only
existing_user_by_name(us, username, email) ==
    {u \in Rows(us) : u.username = username}

\* db.query(User).filter((User.username == username) | (User.email == email)).first()
existing_user(us, username, email) ==
    {u \in Rows(us) : u.username = username \/ u.email = email}

\* a users table without UNIQUE indexes
NoUniqueIndex(us, username, email) == TRUE

\* a users table whose email column lost its UNIQUE index
UniqueUsernameOnly(us, username, email) ==
    \A u \in Rows(us) : u.username # username

\* the UNIQUE indexes on users.username and users.email
UniqueOk(us, username, email) ==
    \A u \in Rows(us) : u.username # username /\ u.email # email

\* db.add(User(...)); db.commit() when the UNIQUE indexes accept the row
add_user(us, username, email, hashed_password, is_admin) ==
    Append(us, User(Len(us) + 1, username, email, hashed_password, is_admin))

\* db.add(Post(...)); db.commit(): created_at defaults to datetime.now()
add_post(ps, content, image_path, now, user_id) ==
    Append(ps, Post(Len(ps) + 1, content, image_path, now, user_id))

\* Every order a query may return the rows of S in under
\* ORDER BY created_at DESC: nothing orders rows of equal created_at.
order_by_created_at_desc(S) ==
    {s \in [1..Cardinality(S) -> S] :
        /\ \A i, j \in 1..Cardinality(S) : i # j => s[i] # s[j]
        /\ \A i, j \in 1..Cardinality(S) :
              i < j => s[i].created_at >= s[j].created_at}

Ids(s) == [i \in 1..Len(s) |-> s[i].id]

Names(s) == [i \in 1..Len(s) |-> s[i].username]

----------------------------------------------------------------------------
(* Session resolver.                                                       *)

\* get_current_user: the set holding the resolved user, or the empty set
get_current_user(us, cookie) ==
    IF cookie = NoCookie THEN {} ELSE by_username(us, cookie)

\* what a request of agent a carries as its username cookie
Sent(a) == IF a = Curl THEN Cookies ELSE {jar[a]}

NameOf(S) == IF S = {} THEN None ELSE (CHOOSE u \in S : TRUE).username

----------------------------------------------------------------------------
(* Responses.  resp is the outcome of the latest step: status 0 while a    *)
(* handler is still running.                                               *)

BaseResp ==
    [op |-> "none", step |-> "none", agent |-> None, cookie |-> NoCookie,
     username |-> None, password |-> None, email |-> None, status |-> 0,
     detail |-> None, location |-> None, set_cookie |-> None, user |-> None,
     users |-> <<>>, posts |-> <<>>, after_logout |-> FALSE]

Idle(w) == boot[w].pc = "serving" /\ reg[w] = NoReq

Serving == \E w \in Workers : Idle(w)

Up == \E w \in Workers : boot[w].pc = "serving"

Init ==
    /\ users = <<>>
    /\ posts = <<>>
    /\ files = <<>>
    /\ boot = [w \in Workers |-> [pc |-> "boot", user_count |-> 0]]
    /\ reg = [w \in Workers |-> NoReq]
    /\ pending = {}
    /\ uploads = {}
    /\ jar = [c \in Browsers |-> NoCookie]
    /\ hist = [c \in Browsers |-> "fresh"]
    /\ nreg = 0
    /\ resp = BaseResp

----------------------------------------------------------------------------
(* Start-up: lifespan runs create_superuser before the worker serves.      *)

\* user_count = db.query(User).count()
SuperuserCount(w) ==
    /\ boot[w].pc = "boot"
    /\ boot' = [boot EXCEPT ![w] = [pc |-> "counted", user_count |-> user_count(users)]]
    /\ resp' = [BaseResp EXCEPT !.op = "startup", !.step = "count"]
    /\ UNCHANGED <<users, posts, files, reg, pending, uploads, jar, hist, nreg>>

\* a start-up that creates no superuser
SuperuserSkip(w) ==
    /\ boot[w].pc = "counted"
    /\ boot' = [boot EXCEPT ![w].pc = "serving"]
    /\ resp' = [BaseResp EXCEPT !.op = "startup", !.step = "create", !.status = 200]
    /\ UNCHANGED <<users, posts, files, reg, pending, uploads, jar, hist, nreg>>

\* if user_count == 0: db.add(admin_user); db.commit()
SuperuserCreate(w) ==
    /\ boot[w].pc = "counted"
    /\ IF boot[w].user_count = 0
       THEN \E salt \in Salts :
              IF UniqueOk(users, "admin", "admin@example.com")
              THEN /\ users' = add_user(users, "admin", "admin@example.com",
                                        pwd_hash("admin", salt), TRUE)
                   /\ boot' = [boot EXCEPT ![w].pc = "serving"]
                   /\ resp' = [BaseResp EXCEPT !.op = "startup", !.step = "create",
                                               !.status = 200]
              ELSE \* IntegrityError leaves create_superuser: start-up fails
                   /\ users' = users
                   /\ boot' = [boot EXCEPT ![w].pc = "failed"]
                   /\ resp' = [BaseResp EXCEPT !.op = "startup", !.step = "create",
                                               !.status = 500]
       ELSE /\ users' = users
            /\ boot' = [boot EXCEPT ![w].pc = "serving"]
            /\ resp' = [BaseResp EXCEPT !.op = "startup", !.step = "create",
                                        !.status = 200]
    /\ UNCHANGED <<posts, files, reg, pending, uploads, jar, hist, nreg>>

----------------------------------------------------------------------------
(* POST /register                                                          *)

\* existing_user query; HTTPException(400) when it finds a row
RegisterCheck(w, username, password, email) ==
    /\ Idle(w)
    /\ IF existing_user(users, username, email) # {}
       THEN /\ reg' = reg
            /\ resp' = [BaseResp EXCEPT !.op = "register", !.step = "check",
                                        !.username = username, !.email = email,
                                        !.status = 400,
                                        !.detail = "Username or email already registered"]
       ELSE /\ \E salt \in Salts :
                 reg' = [reg EXCEPT ![w] =
                            [pc |-> "count", username |-> username, email |-> email,
                             hashed_password |-> pwd_hash(password, salt),
                             is_admin |-> FALSE]]
            /\ resp' = [BaseResp EXCEPT !.op = "register", !.step = "check",
                                        !.username = username, !.email = email]
    /\ UNCHANGED <<users, posts, files, boot, pending, uploads, jar, hist, nreg>>

\* if db.query(User).count() == 0: is_admin = True
RegisterCount(w) ==
    /\ reg[w] # NoReq
    /\ reg[w].pc = "count"
    /\ reg' = [reg EXCEPT ![w].pc = "commit",
                          ![w].is_admin = (user_count(users) = 0)]
    /\ resp' = [BaseResp EXCEPT !.op = "register", !.step = "count",
                                !.username = reg[w].username, !.email = reg[w].email]
    /\ UNCHANGED <<users, posts, files, boot, pending, uploads, jar, hist, nreg>>

\* a registration that signs the new user in on its redirect
RegisterCommitSignsIn(w) ==
    /\ reg[w] # NoReq
    /\ reg[w].pc = "commit"
    /\ UniqueOk(users, reg[w].username, reg[w].email)
    /\ reg' = [reg EXCEPT ![w] = NoReq]
    /\ users' = add_user(users, reg[w].username, reg[w].email,
                         reg[w].hashed_password, reg[w].is_admin)
    /\ nreg' = nreg + 1
    /\ jar' = [c \in Browsers |-> reg[w].username]
    /\ resp' = [BaseResp EXCEPT !.op = "register", !.step = "commit",
                                !.username = reg[w].username, !.email = reg[w].email,
                                !.status = 303, !.location = "/login",
                                !.set_cookie = reg[w].username]
    /\ UNCHANGED <<posts, files, boot, pending, uploads, hist>>

\* db.add(new_user); db.commit(); redirect to /login
RegisterCommit(w) ==
    /\ reg[w] # NoReq
    /\ reg[w].pc = "commit"
    /\ reg' = [reg EXCEPT ![w] = NoReq]
    /\ IF UniqueOk(users, reg[w].username, reg[w].email)
       THEN /\ users' = add_user(users, reg[w].username, reg[w].email,
                                 reg[w].hashed_password, reg[w].is_admin)
            /\ nreg' = nreg + 1
            /\ resp' = [BaseResp EXCEPT !.op = "register", !.step = "commit",
                                        !.username = reg[w].username,
                                        !.email = reg[w].email,
                                        !.status = 303, !.location = "/login"]
       ELSE \* IntegrityError: the request ends as a server error
            /\ users' = users
            /\ nreg' = nreg
            /\ resp' = [BaseResp EXCEPT !.op = "register", !.step = "commit",
                                        !.username = reg[w].username,
                                        !.email = reg[w].email,
                                        !.status = 500]
    /\ UNCHANGED <<posts, files, boot, pending, uploads, jar, hist>>

----------------------------------------------------------------------------
(* POST /login and GET /logout                                             *)

\* one lookup by username, then verify_password; the cookie is set on success
login(c, username, password) ==
    /\ Serving
    /\ LET found == by_username(users, username)
           ok == found # {} /\ \A u \in found : verify_password(u, password)
       IN IF ok
          THEN /\ jar' = [jar EXCEPT ![c] = NameOf(found)]
               /\ hist' = [hist EXCEPT ![c] = NameOf(found)]
               /\ resp' = [BaseResp EXCEPT !.op = "login", !.agent = c,
                                           !.cookie = jar[c], !.username = username,
                                           !.password = password,
                                           !.status = 303, !.location = "/dashboard",
                                           !.set_cookie = NameOf(found)]
          ELSE /\ jar' = jar
               /\ hist' = hist
               /\ resp' = [BaseResp EXCEPT !.op = "login", !.agent = c,
                                           !.cookie = jar[c], !.username = username,
                                           !.password = password, !.status = 401,
                                           !.detail = "Invalid username or password"]
    /\ UNCHANGED <<users, posts, files, boot, reg, pending, uploads, nreg>>

\* a logout that redirects without deleting the cookie
logout_keeps_cookie(c) ==
    /\ Serving
    /\ hist' = [hist EXCEPT ![c] = "out"]
    /\ resp' = [BaseResp EXCEPT !.op = "logout", !.agent = c, !.cookie = jar[c],
                                !.status = 303, !.location = "/"]
    /\ UNCHANGED <<users, posts, files, boot, reg, pending, uploads, jar, nreg>>

\* delete_cookie on a redirect to /, whatever the request carried
logout(c) ==
    /\ Serving
    /\ jar' = [jar EXCEPT ![c] = NoCookie]
    /\ hist' = [hist EXCEPT ![c] = "out"]
    /\ resp' = [BaseResp EXCEPT !.op = "logout", !.agent = c, !.cookie = jar[c],
                                !.status = 303, !.location = "/",
                                !.set_cookie = "<delete>"]
    /\ UNCHANGED <<users, posts, files, boot, reg, pending, uploads, nreg>>

----------------------------------------------------------------------------
(* Depends(get_current_user): the identity lookup of a request to /dashboard, *)
(* /post, /profile/{username} or /admin, made before the handler is called.   *)

\* current_user = get_current_user(request, db); the request then waits for
\* the event loop to call its handler
resolve_current_user(op, a, cookie, username, image) ==
    /\ Up
    /\ cookie \in Sent(a)
    /\ Cardinality(pending) < MaxInFlight
    /\ LET r == [op |-> op, agent |-> a, cookie |-> cookie,
                 user |-> get_current_user(users, cookie),
                 username |-> username, image |-> image,
                 after_logout |-> (a \in Browsers /\ hist[a] = "out")]
       IN /\ r \notin pending
          /\ pending' = pending \cup {r}
          /\ resp' = [BaseResp EXCEPT !.op = op, !.step = "resolve", !.agent = a,
                                      !.cookie = cookie, !.username = username,
                                      !.user = NameOf(r.user),
                                      !.after_logout = r.after_logout]
    /\ UNCHANGED <<users, posts, files, boot, reg, uploads, jar, hist, nreg>>

\* the response fields every handler body copies from its request
Answer(r) ==
    [BaseResp EXCEPT !.op = r.op, !.step = "body", !.agent = r.agent,
                     !.cookie = r.cookie, !.username = r.username,
                     !.after_logout = r.after_logout]

----------------------------------------------------------------------------
(* GET /dashboard                                                          *)

dashboard(r) ==
    /\ Serving
    /\ r \in pending /\ r.op = "dashboard"
    /\ pending' = pending \ {r}
    /\ IF r.user = {}
       THEN resp' = [Answer(r) EXCEPT !.status = 303, !.location = "/login"]
       ELSE resp' = [Answer(r) EXCEPT !.status = 200, !.user = NameOf(r.user)]
    /\ UNCHANGED <<users, posts, files, boot, reg, uploads, jar, hist, nreg>>

----------------------------------------------------------------------------
(* POST /post                                                              *)

\* files[n] is the state of the n-th file opened under static/uploads; the
\* posts table stores its path relative to static
NoImage == <<>>
StoredPath(n) == <<"uploads", n>>

\* the body up to its await: with an image, open the file under a fresh
\* uuid4 name; without an image the post row is written at once
create_post(r, now) ==
    /\ Serving
    /\ r \in pending /\ r.op = "post"
    /\ pending' = pending \ {r}
    /\ IF r.user = {}
       THEN /\ resp' = [Answer(r) EXCEPT !.status = 303, !.location = "/login"]
            /\ UNCHANGED <<posts, files, uploads>>
       ELSE IF ~r.image
       THEN /\ Len(posts) < MaxPosts
            /\ posts' = add_post(posts, "hello", NoImage, now,
                                 (CHOOSE u \in r.user : TRUE).id)
            /\ resp' = [Answer(r) EXCEPT !.step = "commit",
                                         !.user = NameOf(r.user),
                                         !.status = 303, !.location = "/dashboard"]
            /\ UNCHANGED <<files, uploads>>
       ELSE /\ Len(files) < MaxFiles
            /\ \/ /\ files' = Append(files, "open")
                  /\ uploads' = uploads \cup
                        {[agent |-> r.agent, cookie |-> r.cookie,
                          user |-> CHOOSE u \in r.user : TRUE,
                          file |-> Len(files) + 1]}
                  /\ resp' = [Answer(r) EXCEPT !.step = "open",
                                               !.user = NameOf(r.user)]
               \/ \* open() raises OSError
                  /\ UNCHANGED <<files, uploads>>
                  /\ resp' = [Answer(r) EXCEPT !.step = "open",
                                               !.user = NameOf(r.user),
                                               !.status = 500]
            /\ posts' = posts
    /\ UNCHANGED <<users, boot, reg, jar, hist, nreg>>

\* a write step that swallows the OSError and stores the post all the same
create_post_write_ignoring_error(up, now) ==
    /\ up \in uploads
    /\ Len(posts) < MaxPosts
    /\ uploads' = uploads \ {up}
    /\ files' \in {files, [files EXCEPT ![up.file] = "written"]}
    /\ posts' = add_post(posts, "hello", StoredPath(up.file), now, up.user.id)
    /\ resp' = [BaseResp EXCEPT !.op = "post", !.step = "written",
                                !.agent = up.agent, !.cookie = up.cookie,
                                !.user = up.user.username,
                                !.status = 303, !.location = "/dashboard"]
    /\ UNCHANGED <<users, boot, reg, pending, jar, hist, nreg>>

\* after the await: file.write(...), then db.add(new_post); db.commit()
create_post_write(up, now) ==
    /\ Serving
    /\ up \in uploads
    /\ uploads' = uploads \ {up}
    /\ \/ /\ Len(posts) < MaxPosts
          /\ files' = [files EXCEPT ![up.file] = "written"]
          /\ posts' = add_post(posts, "hello", StoredPath(up.file), now, up.user.id)
          /\ resp' = [BaseResp EXCEPT !.op = "post", !.step = "written",
                                      !.agent = up.agent, !.cookie = up.cookie,
                                      !.user = up.user.username,
                                      !.status = 303, !.location = "/dashboard"]
       \/ \* write() raises OSError
          /\ UNCHANGED <<files, posts>>
          /\ resp' = [BaseResp EXCEPT !.op = "post", !.step = "write",
                                      !.agent = up.agent, !.cookie = up.cookie,
                                      !.user = up.user.username, !.status = 500]
    /\ UNCHANGED <<users, boot, reg, pending, jar, hist, nreg>>

----------------------------------------------------------------------------
(* GET /profile/{username} and GET /admin                                  *)

\* the body looks up profile_user and its posts; the viewer is the identity
\* looked up before the body ran
user_profile(r) ==
    /\ Serving
    /\ r \in pending /\ r.op = "profile"
    /\ pending' = pending \ {r}
    /\ LET profile_user == by_username(users, r.username)
       IN IF profile_user = {}
          THEN resp' = [Answer(r) EXCEPT !.status = 404,
                                         !.detail = "User not found"]
          ELSE \E ps \in order_by_created_at_desc(
                           {p \in Rows(posts) :
                               \E u \in profile_user : p.user_id = u.id}) :
                 resp' = [Answer(r) EXCEPT !.status = 200,
                                           !.user = NameOf(r.user),
                                           !.posts = Ids(ps)]
    /\ UNCHANGED <<users, posts, files, boot, reg, uploads, jar, hist, nreg>>

\* an admin view that asks for a session but not for is_admin
admin_dashboard_any_user(r) ==
    /\ Serving
    /\ r \in pending /\ r.op = "admin"
    /\ pending' = pending \ {r}
    /\ IF r.user = {}
       THEN resp' = [Answer(r) EXCEPT !.status = 403, !.detail = "Not authorized"]
       ELSE \E ps \in order_by_created_at_desc(Rows(posts)) :
              resp' = [Answer(r) EXCEPT !.status = 200, !.user = NameOf(r.user),
                                        !.users = Names(users), !.posts = Ids(ps)]
    /\ UNCHANGED <<users, posts, files, boot, reg, uploads, jar, hist, nreg>>

admin_dashboard(r) ==
    /\ Serving
    /\ r \in pending /\ r.op = "admin"
    /\ pending' = pending \ {r}
    /\ IF r.user = {} \/ \E u \in r.user : ~u.is_admin
       THEN resp' = [Answer(r) EXCEPT !.status = 403, !.detail = "Not authorized"]
       ELSE \E ps \in order_by_created_at_desc(Rows(posts)) :
              resp' = [Answer(r) EXCEPT !.status = 200, !.user = NameOf(r.user),
                                        !.users = Names(users), !.posts = Ids(ps)]
    /\ UNCHANGED <<users, posts, files, boot, reg, uploads, jar, hist, nreg>>

----------------------------------------------------------------------------
(* One worker serving sessions: start-up, registration, login, logout and  *)
(* the two views that depend on the resolved identity.                     *)

Worker == "w1"

NextSession ==
    \/ SuperuserCount(Worker)
    \/ SuperuserCreate(Worker)
    \/ \E u \in Usernames, e \in Emails : RegisterCheck(Worker, u, "pw1", e)
    \/ RegisterCount(Worker)
    \/ RegisterCommit(Worker)
    \/ \E c \in Browsers, u \in Usernames, p \in Passwords : login(c, u, p)
    \/ \E c \in Browsers : logout(c)
    \/ \E op \in {"dashboard", "admin"}, a \in Agents, k \in Cookies :
          resolve_current_user(op, a, k, None, FALSE)
    \/ \E r \in pending : dashboard(r)
    \/ \E r \in pending : admin_dashboard(r)

SpecSession == Init /\ [][NextSession]_vars

----------------------------------------------------------------------------
(* One worker serving posts to a browser: create_post yields while it      *)
(* reads the upload, so other requests run between its steps.              *)

Poster == "c1"
Authors == {"admin", "alice"}
FixedClock == {1}

NextPosts ==
    \/ SuperuserCount(Worker)
    \/ SuperuserCreate(Worker)
    \/ RegisterCheck(Worker, "alice", "pw1", "a@x.com")
    \/ RegisterCount(Worker)
    \/ RegisterCommit(Worker)
    \/ \E u \in Authors : login(Poster, u, u)
    \/ login(Poster, "alice", "pw1")
    \/ logout(Poster)
    \/ resolve_current_user("dashboard", Poster, jar[Poster], None, FALSE)
    \/ \E image \in BOOLEAN :
          resolve_current_user("post", Poster, jar[Poster], None, image)
    \/ \E r \in pending : dashboard(r)
    \/ \E r \in pending, now \in FixedClock : create_post(r, now)
    \/ \E up \in uploads, now \in FixedClock : create_post_write(up, now)

SpecPosts == Init /\ [][NextPosts]_vars

----------------------------------------------------------------------------
(* One worker serving profiles: posts without images, stored at whatever   *)
(* the wall clock reads, and the profile pages that list them.             *)

NextProfile ==
    \/ SuperuserCount(Worker)
    \/ SuperuserCreate(Worker)
    \/ RegisterCheck(Worker, "alice", "pw1", "a@x.com")
    \/ RegisterCount(Worker)
    \/ RegisterCommit(Worker)
    \/ login(Poster, "admin", "admin")
    \/ login(Poster, "alice", "pw1")
    \/ resolve_current_user("post", Poster, jar[Poster], None, FALSE)
    \/ \E a \in Agents, k \in Cookies, u \in Usernames :
          resolve_current_user("profile", a, k, u, FALSE)
    \/ \E r \in pending, now \in Times : create_post(r, now)
    \/ \E r \in pending : user_profile(r)

SpecProfile == Init /\ [][NextProfile]_vars

----------------------------------------------------------------------------
(* The store under concurrent start-ups and registrations.                 *)

NextReg ==
    \/ \E w \in Workers : SuperuserCount(w)
    \/ \E w \in Workers : SuperuserCreate(w)
    \/ \E w \in Workers, u \in Usernames, p \in Passwords, e \in Emails :
          RegisterCheck(w, u, p, e)
    \/ \E w \in Workers : RegisterCount(w)
    \/ \E w \in Workers : RegisterCommit(w)

SpecReg == Init /\ [][NextReg]_vars

----------------------------------------------------------------------------
(* Properties.                                                             *)

Taken(us, username, email) ==
    \E i \in 1..Len(us) : us[i].username = username \/ us[i].email = email

Admins(us) == {i \in 1..Len(us) : us[i].is_admin}

Registered(step) ==
    step.op = "register" /\ step.step = "commit" /\ step.status = 303

\* C1: a register request whose username or whose email (either alone) is
\* already held by a stored user ends in 400 "Username or email already
\* registered" and leaves the users table as it was.
RegisterRejectsDuplicate ==
    [][(resp'.op = "register" /\ resp'.step = "check"
           /\ Taken(users, resp'.username, resp'.email))
         => /\ resp'.status = 400
            /\ resp'.detail = "Username or email already registered"
            /\ users' = users
            /\ reg' = reg]_vars

\* C1 witness: a request rejected for its email alone, its username being free.
RejectedForEmailAlone ==
    /\ resp.op = "register" /\ resp.status = 400
    /\ \E i \in 1..Len(users) : users[i].email = resp.email
    /\ \A i \in 1..Len(users) : users[i].username # resp.username

\* C2 as the specification states it: after start-up on an empty store the
\* first successful registration creates an admin and every later one a
\* non-admin.
FirstRegistrationIsAdmin ==
    Registered(resp) => (users[Len(users)].is_admin <=> nreg = 1)

\* C2 amended: start-up on an empty store creates the superuser "admin" with
\* is_admin set, and every successful registration, the first included,
\* creates a user without is_admin.
OnlySuperuserIsAdmin ==
    /\ users # <<>> =>
          /\ users[1].username = "admin"
          /\ users[1].email = "admin@example.com"
          /\ users[1].is_admin
    /\ \A i \in 2..Len(users) : ~users[i].is_admin
    /\ Registered(resp) => (Len(users) = nreg + 1 /\ ~users[Len(users)].is_admin)

\* C2 witness: two registrations have succeeded, one after the other.
TwoRegistered == Registered(resp) /\ nreg = 2

\* C3: however start-ups and registrations interleave, the users table never
\* holds more than one row with is_admin set.
AtMostOneAdmin == Cardinality(Admins(users)) <= 1

\* C3 witness: two start-ups both counted zero users; one created the
\* superuser and the other was refused.
StartupRaceLost ==
    \E v, w \in Workers :
        /\ boot[v].pc = "serving" /\ boot[v].user_count = 0
        /\ boot[w].pc = "failed" /\ boot[w].user_count = 0
        /\ Cardinality(Admins(users)) = 1

\* C10: no two rows of the users table share a username, and no two share an
\* email, however registrations and start-ups interleave.
UniqueIdentity ==
    \A i, j \in 1..Len(users) :
        i # j => /\ users[i].username # users[j].username
                 /\ users[i].email # users[j].email

\* C10 witness: a registration passed its duplicate check, lost the race and
\* was refused at commit.
RegistrationRaceLost ==
    /\ resp.op = "register" /\ resp.step = "commit" /\ resp.status = 500
    /\ Len(users) >= 2

\* C4: a login succeeds exactly when a user of that username exists and the
\* password verifies against its hash: then 303 to /dashboard with the cookie
\* set to the username; otherwise 401 with the one message, and no cookie set
\* or changed.
LoginOutcome ==
    [][resp'.op = "login" =>
         IF \E i \in 1..Len(users) :
                /\ users[i].username = resp'.username
                /\ pwd_verify(resp'.password, users[i].hashed_password)
         THEN /\ resp'.status = 303
              /\ resp'.location = "/dashboard"
              /\ resp'.set_cookie = resp'.username
              /\ jar' = [jar EXCEPT ![resp'.agent] = resp'.username]
         ELSE /\ resp' = [BaseResp EXCEPT !.op = "login", !.agent = resp'.agent,
                                          !.cookie = resp'.cookie,
                                          !.username = resp'.username,
                                          !.password = resp'.password,
                                          !.status = 401,
                                          !.detail = "Invalid username or password"]
              /\ jar' = jar]_vars

\* C4 witness: a known username with a wrong password was refused while the
\* browser held a session.
WrongPasswordRefused ==
    /\ resp.op = "login" /\ resp.status = 401
    /\ \E i \in 1..Len(users) : users[i].username = resp.username
    /\ resp.agent \in Browsers /\ jar[resp.agent] # NoCookie

\* C5: GET /admin answers 200 with the listing only when the cookie names a
\* stored user with is_admin set; with no cookie, a cookie naming nobody or a
\* non-admin it answers 403 with no listing.
AdminOnly ==
    (resp.op = "admin" /\ resp.step = "body") =>
        IF /\ resp.cookie # NoCookie
           /\ \E i \in 1..Len(users) :
                 users[i].username = resp.cookie /\ users[i].is_admin
        THEN /\ resp.status = 200
             /\ resp.users = [i \in 1..Len(users) |-> users[i].username]
        ELSE /\ resp.status = 403
             /\ resp.users = <<>> /\ resp.posts = <<>>

\* C5 witness: a stored non-admin asked for the admin view and got 403.
NonAdminForbidden ==
    /\ resp.op = "admin" /\ resp.status = 403
    /\ \E i \in 1..Len(users) :
          users[i].username = resp.cookie /\ ~users[i].is_admin

LoggedIn(c, step, after) ==
    /\ step.op = "login" /\ step.agent = c /\ step.status = 303
    /\ step.username = after

LoggedOut(c, step, after) ==
    step.op = "logout" /\ step.agent = c /\ after = NoCookie

\* C7 as the specification states it: a browser's session changes only from
\* anonymous to authenticated by a successful login, and from authenticated
\* to anonymous by a logout.
SessionTwoTransitions ==
    [][\A c \in Browsers :
          jar'[c] # jar[c] =>
             \/ jar[c] = NoCookie /\ LoggedIn(c, resp', jar'[c])
             \/ jar[c] # NoCookie /\ LoggedOut(c, resp', jar'[c])]_vars

\* C7 amended: a browser's session changes only to authenticated as U by a
\* successful login as U, from anonymous or from a session as someone else,
\* and to anonymous by a logout; the identity lookup of a request of the
\* browser gives U only after its login as U with no logout since; registering
\* changes no session.
SessionTransitions ==
    [][\A c \in Browsers :
          /\ jar'[c] # jar[c] =>
                \/ LoggedIn(c, resp', jar'[c])
                \/ LoggedOut(c, resp', jar'[c])
          /\ (resp'.step = "resolve" /\ resp'.agent = c /\ resp'.user # None) =>
                hist[c] = resp'.user
          /\ resp'.op = "register" => jar' = jar]_vars

\* C7 witness: a browser request resolved to the user the browser logged in
\* as, after a user was registered.
ResolvedAfterLogin ==
    \E c \in Browsers :
        /\ resp.op = "dashboard" /\ resp.agent = c /\ resp.status = 200
        /\ resp.user = jar[c] /\ hist[c] = jar[c]
        /\ nreg >= 1

Protected(step) == step.op \in {"dashboard", "post"}

\* C6: logout always answers 303 to / and leaves the browser without a
\* cookie, with or without a session before; a dashboard or post request the
\* browser sends after logging out resolves to nobody, is answered 303 to
\* /login, stores no post and opens no file.
LogoutThenProtected ==
    [][/\ resp'.op = "logout" =>
             /\ resp'.status = 303 /\ resp'.location = "/"
             /\ jar'[resp'.agent] = NoCookie
       /\ (Protected(resp') /\ resp'.after_logout) =>
             /\ resp'.user = None
             /\ resp'.step # "resolve" =>
                   resp'.status = 303 /\ resp'.location = "/login"
             /\ posts' = posts /\ files' = files /\ uploads' = uploads]_vars

\* C6 witness: a browser that posted, then logged out, asked to post again
\* and was sent to /login.
PostAfterLogoutRedirected ==
    /\ resp.op = "post" /\ resp.status = 303 /\ resp.location = "/login"
    /\ resp.after_logout
    /\ posts # <<>>

\* C8 as the specification states it: the profile of a stored user lists
\* exactly that user's posts, the later created before the earlier created
\* (P1 then P2 gives P2, P1); an unknown username gives 404.
ProfileNewestFirst ==
    (resp.op = "profile" /\ resp.step = "body") =>
        IF \E i \in 1..Len(users) : users[i].username = resp.username
        THEN /\ resp.status = 200
             /\ {resp.posts[k] : k \in 1..Len(resp.posts)} =
                   {i \in 1..Len(posts) :
                       users[posts[i].user_id].username = resp.username}
             /\ \A k, l \in 1..Len(resp.posts) :
                   k < l => resp.posts[k] > resp.posts[l]
        ELSE resp.status = 404

\* C9: a post row that names an image was stored after its file was written,
\* and a post request that fails on its file stores no post.
FileBeforeRow ==
    [][/\ \A i \in 1..Len(posts') :
             posts'[i].image_path # NoImage =>
                files'[posts'[i].image_path[2]] = "written"
       /\ (resp'.op = "post" /\ resp'.status = 500) => posts' = posts]_vars

\* C9 witness: the file of an upload was opened, its write failed, and no
\* post names it.
WriteFailedNoPost ==
    /\ resp.op = "post" /\ resp.step = "write" /\ resp.status = 500
    /\ \E n \in 1..Len(files) :
          /\ files[n] = "open"
          /\ \A i \in 1..Len(posts) : posts[i].image_path # StoredPath(n)

====
